---------------------------- MODULE Spec2Model ----------------------------
(***************************************************************************)
(* A model of usbpid_gui.py: the usbipd command runner, the device-list    *)
(* parser and the Qt handlers that sequence bind, attach, detach and the   *)
(* winget installation.                                                    *)
(*                                                                         *)
(* Text is a sequence of one-character strings.  The fixed messages of the *)
(* program, which are Chinese in the source, are sequences of a few        *)
(* English pieces; no piece is a single character, so a search for a       *)
(* character pattern in them finds what it finds in the original.          *)
(***************************************************************************)
EXTENDS Naturals, Integers, Sequences, FiniteSets, TLC

VARIABLES
    \* ---- the main window (MainWindow) and the Qt event loop
    stack,      \* the handlers running on the interaction thread, innermost last
    queue,      \* user input posted to the window and not yet dispatched
    table,      \* self.table: the rows of the device table
    sel,        \* the selected row of the table, 0 when none
    btn,        \* btn_bind / btn_detach enabled
    lastAct,    \* the record of the action that ended last (history)
    inflight,   \* the external invocations that were issued and have not returned
    clicks,     \* the number of clicks the user has made
    \* ---- one call of UsbIpdManager._run, step by step
    r_pc, r_args, r_admin, r_cmd, r_elapsed, r_result,
    \* ---- one call of UsbIpdManager.list_devices on a text built line by line
    lines, parsed

guiVars == <<stack, queue, table, sel, btn, lastAct, inflight, clicks>>
runVars == <<r_pc, r_args, r_admin, r_cmd, r_elapsed, r_result>>
parseVars == <<lines, parsed>>
vars == <<stack, queue, table, sel, btn, lastAct, inflight, clicks,
          r_pc, r_args, r_admin, r_cmd, r_elapsed, r_result, lines, parsed>>

-----------------------------------------------------------------------------
(* Bounds of the model *)

\* the number of clicks and row selections the user makes in one run
MaxClicks == 3
\* the number of lines of a listing text
MaxLines == 3

-----------------------------------------------------------------------------
(* Text *)

UpperChars == <<"A","B","C","D","E","F","G","H","I","J","K","L","M",
                "N","O","P","Q","R","S","T","U","V","W","X","Y","Z">>
LowerChars == <<"a","b","c","d","e","f","g","h","i","j","k","l","m",
                "n","o","p","q","r","s","t","u","v","w","x","y","z">>

\* str.lower() and str.upper(), character by character
lower(s) ==
    [i \in 1..Len(s) |->
        IF \E k \in 1..Len(UpperChars) : UpperChars[k] = s[i]
        THEN LowerChars[CHOOSE k \in 1..Len(UpperChars) : UpperChars[k] = s[i]]
        ELSE s[i]]

upper(s) ==
    [i \in 1..Len(s) |->
        IF \E k \in 1..Len(LowerChars) : LowerChars[k] = s[i]
        THEN UpperChars[CHOOSE k \in 1..Len(LowerChars) : LowerChars[k] = s[i]]
        ELSE s[i]]

\* needle in hay
Contains(hay, needle) ==
    \E i \in 0..(Len(hay) - Len(needle)) :
        \A k \in 1..Len(needle) : hay[i + k] = needle[k]

\* the character classes \s, \d and [0-9a-fA-F] of the patterns
IsSpace(c) == c \in {" ", "\t", "\n", "\r"}
IsDigit(c) == c \in {"0","1","2","3","4","5","6","7","8","9"}
IsHex(c) == IsDigit(c) \/ c \in {"a","b","c","d","e","f","A","B","C","D","E","F"}

\* str.strip()
strip(s) ==
    LET keep == {i \in 1..Len(s) : ~IsSpace(s[i])}
    IN  IF keep = {} THEN <<>>
        ELSE LET a == CHOOSE i \in keep : \A j \in keep : i <= j
                 b == CHOOSE i \in keep : \A j \in keep : j <= i
             IN  SubSeq(s, a, b)

\* the k-th smallest member of a set of numbers
Nth(S, k) == CHOOSE i \in S : Cardinality({j \in S : j < i}) = k - 1

\* str.splitlines(): the text between line breaks, no empty last line
splitlines(s) ==
    LET brk == {i \in 1..Len(s) : s[i] = "\n"}
        ends == IF s # <<>> /\ s[Len(s)] # "\n" THEN brk \cup {Len(s) + 1} ELSE brk
        first(k) == IF k = 1 THEN 1 ELSE Nth(ends, k - 1) + 1
    IN  [k \in 1..Cardinality(ends) |-> SubSeq(s, first(k), Nth(ends, k) - 1)]

\* str.startswith(c) for a one-character prefix
startswith(s, c) == Len(s) >= 1 /\ s[1] = c

\* every character of s[a..b] is whitespace
AllSpace(s, a, b) == \A i \in a..b : IsSpace(s[i])

-----------------------------------------------------------------------------
(* UsbIpdManager._run *)

\* "usbipd 未安装或不在 PATH 中。\n请先安装 usbipd-win: <url>"
InstallUrl == "https://github.com/dorssel/usbipd-win"
NotFoundMsg == <<"usbipd is not installed or not in PATH.", "\n",
                 "Install usbipd-win first: ", InstallUrl>>
\* "命令执行超时"
TimeoutMsg == <<"the command timed out">>
\* "无法获取设备列表"
NoListMsg == <<"cannot get the device list">>

\* the timeout of a direct call and of an elevated call, in seconds
RunTimeout == 15
AdminTimeout == 30

\* " ".join(args)
RECURSIVE JoinArgs(_)
JoinArgs(args) ==
    IF args = <<>> THEN <<>>
    ELSE IF Len(args) = 1 THEN <<args[1]>>
    ELSE <<args[1], " ">> \o JoinArgs(Tail(args))

\* the command line handed to subprocess.run
RunCmd(args, need_admin) ==
    IF need_admin
    THEN <<"powershell", "-Command",
           <<"Start-Process -FilePath usbipd -ArgumentList ">> \o JoinArgs(args)
               \o <<" -Verb RunAs -Wait -WindowStyle Hidden">> >>
    ELSE <<"usbipd">> \o args

\* the timeout handed to subprocess.run
RunLimit(need_admin) == IF need_admin THEN AdminTimeout ELSE RunTimeout

\* What subprocess.run does: the process ends with an exit code and its two
\* output texts, or the executable is not found, or the timeout expires, or
\* another exception is raised (its text in err).
ProcExit(code, out, err) == [kind |-> "exit", code |-> code, out |-> out, err |-> err]
ProcNotFound == [kind |-> "notfound", code |-> 0, out |-> <<>>, err |-> <<>>]
ProcTimeout == [kind |-> "timeout", code |-> 0, out |-> <<>>, err |-> <<>>]
ProcError(text) == [kind |-> "error", code |-> 0, out |-> <<>>, err |-> text]

\* _run without its last handler: another exception leaves the function
RunNoCatchAll(args, need_admin, proc) ==
    CASE proc.kind = "exit" ->
            [raised |-> FALSE, ok |-> proc.code = 0, stdout |-> proc.out, stderr |-> proc.err]
      [] proc.kind = "notfound" ->
            [raised |-> FALSE, ok |-> FALSE, stdout |-> <<>>, stderr |-> NotFoundMsg]
      [] proc.kind = "timeout" ->
            [raised |-> FALSE, ok |-> FALSE, stdout |-> <<>>, stderr |-> TimeoutMsg]
      [] OTHER ->
            [raised |-> TRUE, ok |-> FALSE, stdout |-> <<>>, stderr |-> <<>>]

\* the result of _run(args, need_admin) when subprocess.run does proc
_run(args, need_admin, proc) ==
    CASE proc.kind = "exit" ->
            [raised |-> FALSE, ok |-> proc.code = 0, stdout |-> proc.out, stderr |-> proc.err]
      [] proc.kind = "notfound" ->
            [raised |-> FALSE, ok |-> FALSE, stdout |-> <<>>, stderr |-> NotFoundMsg]
      [] proc.kind = "timeout" ->
            [raised |-> FALSE, ok |-> FALSE, stdout |-> <<>>, stderr |-> TimeoutMsg]
      [] OTHER ->
            [raised |-> FALSE, ok |-> FALSE, stdout |-> <<>>, stderr |-> proc.err]

-----------------------------------------------------------------------------
(* UsbIpdManager.list_devices *)

\* \d+(\.\d+)* on s[a..b]
IsDotted(s, a, b) ==
    /\ a <= b
    /\ IsDigit(s[a]) /\ IsDigit(s[b])
    /\ \A i \in a..b : IsDigit(s[i]) \/ s[i] = "."
    /\ \A i \in a..(b - 1) : ~(s[i] = "." /\ s[i + 1] = ".")

\* \d+-\d+(?:\.\d+)* on the whole of s
IsBusId(s) ==
    \E d \in 2..(Len(s) - 1) :
        /\ s[d] = "-"
        /\ \A i \in 1..(d - 1) : IsDigit(s[i])
        /\ IsDotted(s, d + 1, Len(s))

\* [0-9a-fA-F]{4}:[0-9a-fA-F]{4} on the whole of s
IsVidPid(s) ==
    /\ Len(s) = 9
    /\ s[5] = ":"
    /\ \A i \in {1, 2, 3, 4, 6, 7, 8, 9} : IsHex(s[i])

\* Every way the pattern of the strict match fits the line s: i ends the
\* busid, j the whitespace after it, j + 9 the vid:pid, l the whitespace after
\* that, m the name, p the two or more whitespace characters before the state,
\* which runs to the end of the line.
StrictFits(s) ==
    LET n == Len(s) IN
    UNION { UNION { UNION { UNION {
        { [i |-> i, j |-> j, l |-> l, m |-> m, p |-> p] :
            p \in { q \in (m + 2)..(n - 1) :
                      AllSpace(s, m + 1, q) /\ ~IsSpace(s[q + 1]) } }
        : m \in (l + 1)..n }
        : l \in { q \in (j + 10)..n : AllSpace(s, j + 10, q) } }
        : j \in { q \in (i + 1)..(n - 9) :
                    AllSpace(s, i + 1, q) /\ IsVidPid(SubSeq(s, q + 1, q + 9)) } }
        : i \in { q \in 1..n : IsBusId(SubSeq(s, 1, q)) } }

\* Better with a greedy name group, (.+) for (.+?)
BetterGreedyName(f, g) ==
    \/ f.i > g.i
    \/ f.i = g.i /\ f.j > g.j
    \/ f.i = g.i /\ f.j = g.j /\ f.l > g.l
    \/ f.i = g.i /\ f.j = g.j /\ f.l = g.l /\ f.m > g.m
    \/ f.i = g.i /\ f.j = g.j /\ f.l = g.l /\ f.m = g.m /\ f.p > g.p

\* The fit re.match reports: greedy groups take the longest text that still
\* lets the rest fit, the lazy name the shortest.
Better(f, g) ==
    \/ f.i > g.i
    \/ f.i = g.i /\ f.j > g.j
    \/ f.i = g.i /\ f.j = g.j /\ f.l > g.l
    \/ f.i = g.i /\ f.j = g.j /\ f.l = g.l /\ f.m < g.m
    \/ f.i = g.i /\ f.j = g.j /\ f.l = g.l /\ f.m = g.m /\ f.p > g.p

StrictMatch(s) ==
    LET fits == StrictFits(s) IN
    IF fits = {} THEN [matched |-> FALSE, g1 |-> <<>>, g2 |-> <<>>, g3 |-> <<>>, g4 |-> <<>>]
    ELSE LET f == CHOOSE x \in fits : \A y \in fits : x = y \/ Better(x, y)
         IN  [matched |-> TRUE,
              g1 |-> SubSeq(s, 1, f.i),
              g2 |-> SubSeq(s, f.j + 1, f.j + 9),
              g3 |-> SubSeq(s, f.l + 1, f.m),
              g4 |-> SubSeq(s, f.p + 1, Len(s))]

\* the number of whitespace characters of s from position i on
RunLen(s, i) ==
    LET ends == {q \in (i - 1)..Len(s) : AllSpace(s, i, q)}
    IN  (CHOOSE q \in ends : \A r \in ends : r <= q) - i + 1

\* re.split(r'\s{2,}', s): the text between the runs of two or more whitespace
\* characters, each run taken whole
SplitWide(s) ==
    LET runs == {i \in 1..Len(s) :
                    /\ IsSpace(s[i])
                    /\ (i = 1 \/ ~IsSpace(s[i - 1]))
                    /\ RunLen(s, i) >= 2}
        first(k) == IF k = 1 THEN 1
                    ELSE Nth(runs, k - 1) + RunLen(s, Nth(runs, k - 1))
        last(k) == IF k = Cardinality(runs) + 1 THEN Len(s) ELSE Nth(runs, k) - 1
    IN  [k \in 1..(Cardinality(runs) + 1) |-> SubSeq(s, first(k), last(k))]

Device(busid, vidpid, name, state) ==
    [busid |-> busid, vidpid |-> vidpid, name |-> name, state |-> state]

\* the index of the first line that contains BUSID in any letter case, 0 when none
HeaderIdx(ls) ==
    LET hits == {i \in 1..Len(ls) : Contains(upper(ls[i]), <<"B","U","S","I","D">>)}
    IN  IF hits = {} THEN 0 ELSE CHOOSE i \in hits : \A j \in hits : i <= j

\* the records one line after the header gives: none or one
ParseLine(line) ==
    LET line_stripped == strip(line)
        match == StrictMatch(line_stripped)
        parts == SplitWide(line_stripped)
    IN  IF line_stripped = <<>> \/ startswith(line_stripped, "-")
                                \/ startswith(line_stripped, "=")
        THEN <<>>
        ELSE IF match.matched
        THEN << Device(match.g1, match.g2, strip(match.g3), strip(match.g4)) >>
        ELSE IF Len(parts) >= 4
        THEN << Device(parts[1], parts[2], parts[3], parts[4]) >>
        ELSE <<>>

RECURSIVE ParseLines(_, _)
ParseLines(ls, i) ==
    IF i > Len(ls) THEN <<>> ELSE ParseLine(ls[i]) \o ParseLines(ls, i + 1)

\* list_devices that parses the header line too: lines[header_idx:]
list_devicesFromHeader(res) ==
    IF ~res.ok
    THEN [ok |-> FALSE, devices |-> <<>>,
          err |-> IF res.stderr # <<>> THEN res.stderr ELSE NoListMsg]
    ELSE LET ls == splitlines(strip(res.stdout))
             header_idx == HeaderIdx(ls)
         IN  IF header_idx = 0
             THEN [ok |-> TRUE, devices |-> <<>>, err |-> <<>>]
             ELSE [ok |-> TRUE, devices |-> ParseLines(ls, header_idx), err |-> <<>>]

\* list_devices that takes a listing without a header line for an error
list_devicesHeaderRequired(res) ==
    IF ~res.ok
    THEN [ok |-> FALSE, devices |-> <<>>,
          err |-> IF res.stderr # <<>> THEN res.stderr ELSE NoListMsg]
    ELSE LET ls == splitlines(strip(res.stdout))
             header_idx == HeaderIdx(ls)
         IN  IF header_idx = 0
             THEN [ok |-> FALSE, devices |-> <<>>, err |-> NoListMsg]
             ELSE [ok |-> TRUE, devices |-> ParseLines(ls, header_idx + 1), err |-> <<>>]

\* list_devices, given the result of cls._run(["list"])
list_devices(res) ==
    IF ~res.ok
    THEN [ok |-> FALSE, devices |-> <<>>,
          err |-> IF res.stderr # <<>> THEN res.stderr ELSE NoListMsg]
    ELSE LET ls == splitlines(strip(res.stdout))
             header_idx == HeaderIdx(ls)
         IN  IF header_idx = 0
             THEN [ok |-> TRUE, devices |-> <<>>, err |-> <<>>]
             ELSE [ok |-> TRUE, devices |-> ParseLines(ls, header_idx + 1), err |-> <<>>]

-----------------------------------------------------------------------------
(* Texts of the usbipd list command, line by line *)

\* Connected:
TxtConnected ==
    <<"C","o","n","n","e","c","t","e","d",":">>

\* BUSID  VID:PID    DEVICE      STATE
TxtHeader ==
    <<"B","U","S","I","D"," "," ","V","I","D",":","P","I","D"," "," "," ",
      " ","D","E","V","I","C","E"," "," "," "," "," "," ","S","T","A","T",
      "E">>

\* BusId  Device
TxtHeaderMixed ==
    <<"B","u","s","I","d"," "," ","D","e","v","i","c","e">>

\* -----  ----
TxtRule ==
    <<"-","-","-","-","-"," "," ","-","-","-","-">>

\* a line of two spaces
TxtBlank ==
    <<" "," ">>

\* 1-1
Bus1 ==
    <<"1","-","1">>

\* 1-1.2
Bus2 ==
    <<"1","-","1",".","2">>

\* 2-13.4.1
Bus3 ==
    <<"2","-","1","3",".","4",".","1">>

\* 046d:c52b
Vid1 ==
    <<"0","4","6","d",":","c","5","2","b">>

\* 1234:abcd
Vid2 ==
    <<"1","2","3","4",":","a","b","c","d">>

\* 0a0B:FfE9
Vid3 ==
    <<"0","a","0","B",":","F","f","E","9">>

\* Logitech USB Input Device
NameLogitech ==
    <<"L","o","g","i","t","e","c","h"," ","U","S","B"," ","I","n","p","u",
      "t"," ","D","e","v","i","c","e">>

\* Some   Multi Word   Device
NameMulti ==
    <<"S","o","m","e"," "," "," ","M","u","l","t","i"," ","W","o","r","d",
      " "," "," ","D","e","v","i","c","e">>

\* Cam
NameCam ==
    <<"C","a","m">>

\* Shared
StShared ==
    <<"S","h","a","r","e","d">>

\* Not shared
StNotShared ==
    <<"N","o","t"," ","s","h","a","r","e","d">>

\* Attached
StAttached ==
    <<"A","t","t","a","c","h","e","d">>

\* GUID  DEVICE
TxtGuid ==
    <<"G","U","I","D"," "," ","D","E","V","I","C","E">>

\* 1-1 1234:abcd    Shared
TxtNoName ==
    <<"1","-","1"," ","1","2","3","4",":","a","b","c","d"," "," "," "," ",
      "S","h","a","r","e","d">>

\* 4-1  zzzz:c52b  Dev  Shared
TxtBadVid ==
    <<"4","-","1"," "," ","z","z","z","z",":","c","5","2","b"," "," ","D",
      "e","v"," "," ","S","h","a","r","e","d">>

\* 1-1  046d:c52b  Dev Shared
TxtNarrow ==
    <<"1","-","1"," "," ","0","4","6","d",":","c","5","2","b"," "," ","D",
      "e","v"," ","S","h","a","r","e","d">>

Sp(n) == [i \in 1..n |-> " "]
Tab == <<"\t">>

\* a data row as usbipd prints it: the four columns and the whitespace between them
Row(busid, w1, vidpid, w2, name, w3, state) ==
    [kind |-> "row", busid |-> busid, vidpid |-> vidpid,
     text |-> busid \o w1 \o vidpid \o w2 \o name \o w3 \o state]

\* a line that is no data row
Line(kind, text) == [kind |-> kind, busid |-> <<>>, vidpid |-> <<>>, text |-> text]

\* 1-1    046d:c52b  Logitech USB Input Device    Shared
RowLogitech == Row(Bus1, Sp(4), Vid1, Sp(2), NameLogitech, Sp(4), StShared)
\* 1-1.2    1234:abcd  Some   Multi Word   Device   Not shared
RowMulti == Row(Bus2, Sp(4), Vid2, Sp(2), NameMulti, Sp(3), StNotShared)
\* 2-13.4.1<TAB>0a0B:FfE9 Cam<TAB><TAB>Attached
RowCam == Row(Bus3, Tab, Vid3, Sp(1), NameCam, Tab \o Tab, StAttached)

\* 1-1  046d:c52b  Hub  Shared
RowHub == Row(Bus1, Sp(2), Vid1, Sp(2), <<"H","u","b">>, Sp(2), StShared)

\* the lines a listing is built from
LineSamples ==
    { Line("pre", TxtConnected), Line("header", TxtHeader), Line("header", TxtHeaderMixed),
      Line("deco", TxtRule), Line("deco", TxtBlank),
      RowLogitech, RowMulti, RowCam,
      Line("junk", TxtGuid), Line("junk", TxtNoName), Line("junk", TxtBadVid),
      Line("junk", TxtNarrow) }

\* the text of a listing: every line and its line break
RECURSIVE JoinLines(_)
JoinLines(ls) == IF ls = <<>> THEN <<>> ELSE ls[1].text \o <<"\n">> \o JoinLines(Tail(ls))

\* what subprocess.run may do for the list command that prints text
ListProcs(text) ==
    { ProcExit(0, text, <<>>), ProcExit(1, <<>>, <<"e","r","r">>), ProcExit(1, <<>>, <<>>),
      ProcNotFound }

-----------------------------------------------------------------------------
(* One call of list_devices on a text built line by line *)

InitParse ==
    /\ lines = <<>> /\ parsed = <<>>
    /\ stack = <<>> /\ queue = <<>> /\ table = <<>> /\ sel = 0 /\ btn = FALSE
    /\ lastAct = <<>> /\ inflight = <<>> /\ clicks = 0
    /\ r_pc = "idle" /\ r_args = <<>> /\ r_admin = FALSE /\ r_cmd = <<>>
    /\ r_elapsed = 0 /\ r_result = <<>>

\* usbipd prints one more line
AddLine ==
    /\ parsed = <<>>
    /\ Len(lines) < MaxLines
    /\ \E ln \in LineSamples : lines' = Append(lines, ln)
    /\ UNCHANGED <<parsed, guiVars, runVars>>

\* list_devices()
ListDevices ==
    /\ parsed = <<>>
    /\ \E proc \in ListProcs(JoinLines(lines)) :
          parsed' = << [proc |-> proc,
                        res |-> list_devices(_run(<<"list">>, FALSE, proc))] >>
    /\ UNCHANGED <<lines, guiVars, runVars>>

NextParse == AddLine \/ ListDevices

SpecParse == InitParse /\ [][NextParse]_vars

-----------------------------------------------------------------------------
(* One call of _run, second by second *)

\* the argument lists the program passes to _run
ArgLists ==
    { <<"list">>, <<"bind", "--busid", "1-1">>, <<"attach", "--wsl", "--busid", "1-1">>,
      <<"detach", "--busid", "2-13.4.1">> }

\* what a process may print
OutTexts == { <<>>, <<"o","k">> }
\* str(e) of another exception
ErrTexts == { <<>>, <<"[","W","i","n","E","r","r","o","r"," ","5","]">> }

InitRun ==
    /\ r_pc = "idle" /\ r_args = <<>> /\ r_admin = FALSE /\ r_cmd = <<>>
    /\ r_elapsed = 0 /\ r_result = <<>>
    /\ stack = <<>> /\ queue = <<>> /\ table = <<>> /\ sel = 0 /\ btn = FALSE
    /\ lastAct = <<>> /\ inflight = <<>> /\ clicks = 0
    /\ lines = <<>> /\ parsed = <<>>

\* _run(args, need_admin) is called: subprocess.run starts with its timeout
RunCall ==
    /\ r_pc = "idle"
    /\ \E args \in ArgLists, need_admin \in BOOLEAN :
          /\ r_args' = args
          /\ r_admin' = need_admin
          /\ r_cmd' = RunCmd(args, need_admin)
    /\ r_elapsed' = 0
    /\ r_result' = <<>>
    /\ r_pc' = "running"
    /\ UNCHANGED <<guiVars, parseVars>>

RunDone(proc) ==
    /\ r_result' = << [proc |-> proc, res |-> _run(r_args, r_admin, proc)] >>
    /\ r_pc' = "returned"
    /\ UNCHANGED <<r_args, r_admin, r_cmd, r_elapsed, guiVars, parseVars>>

\* the executable (usbipd, or powershell for an elevated call) is not found
RunNotFound == r_pc = "running" /\ r_elapsed = 0 /\ RunDone(ProcNotFound)

\* subprocess.run raises another exception
RunError == r_pc = "running" /\ \E text \in ErrTexts : RunDone(ProcError(text))

\* a second passes and the process has not ended
RunTick ==
    /\ r_pc = "running"
    /\ r_elapsed < RunLimit(r_admin)
    /\ r_elapsed' = r_elapsed + 1
    /\ UNCHANGED <<r_pc, r_args, r_admin, r_cmd, r_result, guiVars, parseVars>>

\* the process ends within the timeout
RunExit ==
    /\ r_pc = "running"
    /\ \E code \in {0, 1}, out \in OutTexts, err \in OutTexts :
          RunDone(ProcExit(code, out, err))

\* the timeout expires: subprocess.run kills the process and raises TimeoutExpired
RunTimeoutExpired ==
    /\ r_pc = "running"
    /\ r_elapsed = RunLimit(r_admin)
    /\ RunDone(ProcTimeout)

\* the caller takes the result
RunReturn ==
    /\ r_pc = "returned"
    /\ r_pc' = "idle"
    /\ UNCHANGED <<r_args, r_admin, r_cmd, r_elapsed, r_result, guiVars, parseVars>>

NextRun ==
    \/ RunCall \/ RunNotFound \/ RunError \/ RunTick \/ RunExit
    \/ RunTimeoutExpired \/ RunReturn

SpecRun == InitRun /\ [][NextRun]_vars

\* Time passes and subprocess.run enforces its timeout.
FairRun == SpecRun /\ WF_vars(RunTick) /\ WF_vars(RunTimeoutExpired)

-----------------------------------------------------------------------------
(* The main window: what the handlers decide *)

\* already bound
AlreadyBound ==
    <<"a","l","r","e","a","d","y"," ","b","o","u","n","d">>

\* Access denied
TxtDenied ==
    <<"A","c","c","e","s","s"," ","d","e","n","i","e","d">>

\* Device is ALREADY 
TxtDeviceIs ==
    <<"D","e","v","i","c","e"," ","i","s"," ","A","L","R","E","A","D","Y",
      " ">>

\* Bound.
TxtBoundUpper ==
    <<"B","o","u","n","d",".">>

\* already  bound
TxtAlreadyWide ==
    <<"a","l","r","e","a","d","y"," "," ","b","o","u","n","d">>

\* WSL is not running
TxtNoWsl ==
    <<"W","S","L"," ","i","s"," ","n","o","t"," ","r","u","n","n","i","n",
      "g">>

\* UsbIpdManager.bind, attach and detach: (ok, stdout + stderr) of _run
bind(busid, proc) ==
    LET r == _run(<<"bind", "--busid", busid>>, TRUE, proc)
    IN  [ok |-> r.ok, msg |-> r.stdout \o r.stderr]

attach(busid, proc) ==
    LET r == _run(<<"attach", "--wsl", "--busid", busid>>, FALSE, proc)
    IN  [ok |-> r.ok, msg |-> r.stdout \o r.stderr]

detach(busid, proc) ==
    LET r == _run(<<"detach", "--busid", busid>>, FALSE, proc)
    IN  [ok |-> r.ok, msg |-> r.stdout \o r.stderr]

\* BindFatal with the test of the text turned round
BindFatalInverted(ok, msg) == ~ok /\ Contains(lower(msg), AlreadyBound)

\* BindFatal without msg.lower()
BindFatalCaseSensitive(ok, msg) == ~ok /\ ~Contains(msg, AlreadyBound)

\* on_bind gives up after the bind: if not ok and "already bound" not in msg.lower()
BindFatal(ok, msg) == ~ok /\ ~Contains(lower(msg), AlreadyBound)

\* AttachReport that takes every attach for a success
AttachReportAlwaysOk(ok) == "bound_and_attached"

\* what on_bind reports after the attach
AttachReport(ok) == IF ok THEN "bound_and_attached" ELSE "bound_not_attached"

\* what on_detach reports
DetachReport(ok) == IF ok THEN "detached" ELSE "detach_failed"

\* Confirmed that takes every reply for a Yes
ConfirmedAlways(reply) == TRUE

\* reply == QMessageBox.Yes
Confirmed(reply) == reply = "Yes"

\* _verify_usbipd_installed: usbipd list ran and its exit code is zero
_verify_usbipd_installed(proc) == proc.kind = "exit" /\ proc.code = 0

\* AlreadyInstalled that never stops at step 0
AlreadyInstalledNever(verified) == FALSE

\* on_install_env stops at step 0: the tool is there
AlreadyInstalled(verified) == verified

\* InstallVerified that believes the exit code of winget
InstallVerifiedTrustsWinget(winget_ok, verified) == winget_ok \/ verified

\* on_install_env after step 2: the installation counts as done
InstallVerified(winget_ok, verified) == verified

\* _update_button_states: the value btn_bind and btn_detach are enabled with
_update_button_states(selected) == selected # 0

\* what subprocess.run may do for each command
BindProcs ==
    { ProcExit(0, <<>>, <<>>), ProcExit(1, <<>>, TxtDenied),
      ProcExit(1, TxtDeviceIs, TxtBoundUpper), ProcExit(1, <<>>, TxtAlreadyWide),
      ProcTimeout }
AttachProcs == { ProcExit(0, <<>>, <<>>), ProcExit(1, <<>>, TxtNoWsl), ProcTimeout }
DetachProcs == { ProcExit(0, <<>>, <<>>), ProcExit(1, <<>>, TxtNoWsl) }
VerifyProcs == { ProcExit(0, TxtHeader, <<>>), ProcExit(1, <<>>, <<>>), ProcNotFound }
WingetProcs ==
    { ProcExit(0, <<>>, <<>>), ProcExit(1, <<>>, <<>>), ProcNotFound, ProcTimeout,
      ProcError(TxtDenied) }
GuiListProcs ==
    { ProcExit(0, JoinLines(<<Line("pre", TxtConnected), Line("header", TxtHeader),
                              RowHub, RowCam>>), <<>>),
      ProcExit(0, JoinLines(<<Line("pre", TxtConnected)>>), <<>>),
      ProcNotFound }

\* the rows refresh_devices leaves in the table
TableAfter(res) == IF res.ok THEN res.devices ELSE <<>>

-----------------------------------------------------------------------------
(* The main window: state *)

\* What is known of an action when its handler starts: the handler (h), the
\* busid of the selected device, and, filled in as the handler runs, the
\* user's reply, the external invocations it issued, their results and what
\* it reported.
NewAct(h, dev) ==
    [h |-> h, dev |-> dev, reply |-> "none", calls |-> <<>>, bindRes |-> <<>>,
     attach |-> "none", verify |-> <<>>, winget |-> <<>>, reports |-> <<>>,
     web |-> FALSE, done |-> FALSE]

\* a handler on the interaction thread: where it is, and its action
Frame(pc, act) == [pc |-> pc, act |-> act]

Top == stack[Len(stack)]
Act == Top.act
At(pc) == stack # <<>> /\ Top.pc = pc
\* the innermost handler goes on at pc with its action record act
Goto(pc, act) == [stack EXCEPT ![Len(stack)] = Frame(pc, act)]
\* the innermost handler returns
Popped == SubSeq(stack, 1, Len(stack) - 1)
Ended(act) == << [act EXCEPT !.done = TRUE] >>

\* a QMessageBox is open: its event loop runs and the main window takes no input
DialogPcs ==
    { "bind_confirm", "bind_warn", "attach_warn", "detach_confirm", "detach_warn",
      "installed_info", "install_confirm", "install_ok_info", "manual_dialog" }
\* QApplication.processEvents() runs
PumpPcs == { "bind_pump1", "bind_pump2", "detach_pump", "install_pump1",
             "install_pump2", "refresh_pump" }

Modal == stack # <<>> /\ Top.pc \in DialogPcs

\* the event loop, or processEvents in the innermost handler, takes the next input
Dispatching ==
    /\ inflight = <<>>
    /\ queue # <<>>
    /\ (IF stack = <<>> THEN TRUE ELSE Top.pc \in PumpPcs)

\* processEvents has returned in the innermost handler
Pumped(pc) == At(pc) /\ queue = <<>> /\ inflight = <<>>

Issued(act, op, busid) == [act EXCEPT !.calls = Append(@, [op |-> op, busid |-> busid])]
Reported(act, tag) == [act EXCEPT !.reports = Append(@, tag)]
\* the invocation op of the handler at depth level is running
Invocation(level, op) == [level |-> level, op |-> op]

\* what the user may click: a button or a row of the table
Inputs ==
    { [b |-> x, row |-> 0] : x \in {"refresh", "install", "bind", "detach"} }
        \cup { [b |-> "select", row |-> r] : r \in 1..Len(table) }

Init ==
    /\ stack = <<>> /\ queue = <<>> /\ sel = 0 /\ btn = FALSE
    /\ lastAct = <<>> /\ inflight = <<>> /\ clicks = 0
    /\ r_pc = "idle" /\ r_args = <<>> /\ r_admin = FALSE /\ r_cmd = <<>>
    /\ r_elapsed = 0 /\ r_result = <<>>
    /\ lines = <<>> /\ parsed = <<>>
    /\ \E proc \in GuiListProcs :
          table = TableAfter(list_devices(_run(<<"list">>, FALSE, proc)))

-----------------------------------------------------------------------------
(* The main window: the user and the event loop *)

\* The user clicks a button or a row.  The click waits in the queue until the
\* thread dispatches events; while a dialog is open the window takes no input.
Click ==
    /\ ~Modal
    /\ clicks < MaxClicks
    /\ \E e \in Inputs : queue' = Append(queue, e)
    /\ clicks' = clicks + 1
    /\ UNCHANGED <<stack, table, sel, btn, lastAct, inflight, runVars, parseVars>>

\* a click on a row: selectionChanged, _update_button_states
SelectRow ==
    /\ Dispatching
    /\ Head(queue).b = "select"
    /\ sel' = IF Head(queue).row \in 1..Len(table) THEN Head(queue).row ELSE 0
    /\ btn' = _update_button_states(sel')
    /\ queue' = Tail(queue)
    /\ UNCHANGED <<stack, table, lastAct, inflight, clicks, runVars, parseVars>>

\* a click on a disabled button does nothing
IgnoreClick ==
    /\ Dispatching
    /\ Head(queue).b \in {"bind", "detach"}
    /\ ~btn
    /\ queue' = Tail(queue)
    /\ UNCHANGED <<stack, table, sel, btn, lastAct, inflight, clicks, runVars, parseVars>>

-----------------------------------------------------------------------------
(* refresh_devices *)

\* btn_refresh.clicked: the status line, then processEvents
refresh_devices ==
    /\ Dispatching
    /\ Head(queue).b = "refresh"
    /\ queue' = Tail(queue)
    /\ stack' = Append(stack, Frame("refresh_pump", NewAct("refresh", <<>>)))
    /\ UNCHANGED <<table, sel, btn, lastAct, inflight, clicks, runVars, parseVars>>

\* UsbIpdManager.list_devices() runs usbipd list
refresh_list_call ==
    /\ Pumped("refresh_pump")
    /\ stack' = Goto("list_wait", Issued(Act, "list", <<>>))
    /\ inflight' = Append(inflight, Invocation(Len(stack), "list"))
    /\ UNCHANGED <<queue, table, sel, btn, lastAct, clicks, runVars, parseVars>>

\* the list returns: the table is emptied and filled, the handler ends
refresh_list_return ==
    /\ At("list_wait")
    /\ \E proc \in GuiListProcs :
          table' = TableAfter(list_devices(_run(<<"list">>, FALSE, proc)))
    /\ sel' = 0
    /\ btn' = _update_button_states(sel')
    /\ inflight' = <<>>
    /\ lastAct' = Ended(Act)
    /\ stack' = Popped
    /\ UNCHANGED <<queue, clicks, runVars, parseVars>>

-----------------------------------------------------------------------------
(* on_bind *)

\* btn_bind.clicked: the selected device, then the question
on_bind ==
    /\ Dispatching
    /\ Head(queue).b = "bind"
    /\ btn
    /\ queue' = Tail(queue)
    /\ IF sel = 0
       THEN /\ lastAct' = Ended(NewAct("bind", <<>>))
            /\ stack' = stack
       ELSE /\ lastAct' = lastAct
            /\ stack' = Append(stack, Frame("bind_confirm", NewAct("bind", table[sel].busid)))
    /\ UNCHANGED <<table, sel, btn, inflight, clicks, runVars, parseVars>>

\* the user answers the question
on_bind_reply ==
    /\ At("bind_confirm")
    /\ \E reply \in {"Yes", "No"} :
          LET a == [Act EXCEPT !.reply = reply]
          IN  IF Confirmed(reply)
              THEN stack' = Goto("bind_pump1", a) /\ lastAct' = lastAct
              ELSE stack' = Popped /\ lastAct' = Ended(a)
    /\ queue' = <<>>
    /\ UNCHANGED <<table, sel, btn, inflight, clicks, runVars, parseVars>>

\* step 1: UsbIpdManager.bind(dev["busid"])
on_bind_call ==
    /\ Pumped("bind_pump1")
    /\ stack' = Goto("bind_wait", Issued(Act, "bind", Act.dev))
    /\ inflight' = Append(inflight, Invocation(Len(stack), "bind"))
    /\ UNCHANGED <<queue, table, sel, btn, lastAct, clicks, runVars, parseVars>>

\* the bind returns
on_bind_return ==
    /\ At("bind_wait")
    /\ \E proc \in BindProcs :
          LET r == bind(Act.dev, proc)
              a == [Act EXCEPT !.bindRes = <<r>>]
          IN  IF BindFatal(r.ok, r.msg)
              THEN stack' = Goto("bind_warn", Reported(a, "bind_failed"))
              ELSE stack' = Goto("bind_pump2", a)
    /\ inflight' = <<>>
    /\ UNCHANGED <<queue, table, sel, btn, lastAct, clicks, runVars, parseVars>>

\* the user closes the warning of the failed bind: the handler returns
on_bind_warn_close ==
    /\ At("bind_warn")
    /\ lastAct' = Ended(Act)
    /\ stack' = Popped
    /\ queue' = <<>>
    /\ UNCHANGED <<table, sel, btn, inflight, clicks, runVars, parseVars>>

\* step 2: UsbIpdManager.attach(dev["busid"])
on_bind_attach_call ==
    /\ Pumped("bind_pump2")
    /\ stack' = Goto("attach_wait", Issued(Act, "attach", Act.dev))
    /\ inflight' = Append(inflight, Invocation(Len(stack), "attach"))
    /\ UNCHANGED <<queue, table, sel, btn, lastAct, clicks, runVars, parseVars>>

\* the attach returns: the report, then refresh_devices (after the warning)
on_bind_attach_return ==
    /\ At("attach_wait")
    /\ \E proc \in AttachProcs :
          LET r == attach(Act.dev, proc)
              a == [Act EXCEPT !.attach = IF r.ok THEN "ok" ELSE "failed"]
          IN  stack' = Goto(IF r.ok THEN "refresh_pump" ELSE "attach_warn",
                            Reported(a, AttachReport(r.ok)))
    /\ inflight' = <<>>
    /\ UNCHANGED <<queue, table, sel, btn, lastAct, clicks, runVars, parseVars>>

\* the user closes the warning of the failed attach: refresh_devices
on_bind_attach_warn_close ==
    /\ At("attach_warn")
    /\ stack' = Goto("refresh_pump", Act)
    /\ queue' = <<>>
    /\ UNCHANGED <<table, sel, btn, lastAct, inflight, clicks, runVars, parseVars>>

-----------------------------------------------------------------------------
(* on_detach *)

\* btn_detach.clicked: the selected device, then the question
on_detach ==
    /\ Dispatching
    /\ Head(queue).b = "detach"
    /\ btn
    /\ queue' = Tail(queue)
    /\ IF sel = 0
       THEN /\ lastAct' = Ended(NewAct("detach", <<>>))
            /\ stack' = stack
       ELSE /\ lastAct' = lastAct
            /\ stack' = Append(stack, Frame("detach_confirm", NewAct("detach", table[sel].busid)))
    /\ UNCHANGED <<table, sel, btn, inflight, clicks, runVars, parseVars>>

\* the user answers the question
on_detach_reply ==
    /\ At("detach_confirm")
    /\ \E reply \in {"Yes", "No"} :
          LET a == [Act EXCEPT !.reply = reply]
          IN  IF Confirmed(reply)
              THEN stack' = Goto("detach_pump", a) /\ lastAct' = lastAct
              ELSE stack' = Popped /\ lastAct' = Ended(a)
    /\ queue' = <<>>
    /\ UNCHANGED <<table, sel, btn, inflight, clicks, runVars, parseVars>>

\* UsbIpdManager.detach(dev["busid"])
on_detach_call ==
    /\ Pumped("detach_pump")
    /\ stack' = Goto("detach_wait", Issued(Act, "detach", Act.dev))
    /\ inflight' = Append(inflight, Invocation(Len(stack), "detach"))
    /\ UNCHANGED <<queue, table, sel, btn, lastAct, clicks, runVars, parseVars>>

\* the detach returns: the report, then refresh_devices (after the warning)
on_detach_return ==
    /\ At("detach_wait")
    /\ \E proc \in DetachProcs :
          LET r == detach(Act.dev, proc)
          IN  stack' = Goto(IF r.ok THEN "refresh_pump" ELSE "detach_warn",
                            Reported(Act, DetachReport(r.ok)))
    /\ inflight' = <<>>
    /\ UNCHANGED <<queue, table, sel, btn, lastAct, clicks, runVars, parseVars>>

\* the user closes the warning of the failed detach: refresh_devices
on_detach_warn_close ==
    /\ At("detach_warn")
    /\ stack' = Goto("refresh_pump", Act)
    /\ queue' = <<>>
    /\ UNCHANGED <<table, sel, btn, lastAct, inflight, clicks, runVars, parseVars>>

-----------------------------------------------------------------------------
(* on_install_env *)

\* btn_install.clicked: step 0, _verify_usbipd_installed() runs usbipd list
on_install_env ==
    /\ Dispatching
    /\ Head(queue).b = "install"
    /\ queue' = Tail(queue)
    /\ stack' = Append(stack, Frame("verify0_wait",
                                    Issued(NewAct("install", <<>>), "verify", <<>>)))
    /\ inflight' = Append(inflight, Invocation(Len(stack) + 1, "verify"))
    /\ UNCHANGED <<table, sel, btn, lastAct, clicks, runVars, parseVars>>

\* the verification of step 0 returns: "already installed", or the question
on_install_checked ==
    /\ At("verify0_wait")
    /\ \E proc \in VerifyProcs :
          LET v == _verify_usbipd_installed(proc)
              a == [Act EXCEPT !.verify = Append(@, v)]
          IN  IF AlreadyInstalled(v)
              THEN stack' = Goto("installed_info", Reported(a, "already_installed"))
              ELSE stack' = Goto("install_confirm", a)
    /\ inflight' = <<>>
    /\ UNCHANGED <<queue, table, sel, btn, lastAct, clicks, runVars, parseVars>>

\* the user closes the "already installed" box: the handler returns
on_install_info_close ==
    /\ At("installed_info")
    /\ lastAct' = Ended(Act)
    /\ stack' = Popped
    /\ queue' = <<>>
    /\ UNCHANGED <<table, sel, btn, inflight, clicks, runVars, parseVars>>

\* the user answers the question
on_install_reply ==
    /\ At("install_confirm")
    /\ \E reply \in {"Yes", "No"} :
          LET a == [Act EXCEPT !.reply = reply]
          IN  IF Confirmed(reply)
              THEN stack' = Goto("install_pump1", a) /\ lastAct' = lastAct
              ELSE stack' = Popped /\ lastAct' = Ended(a)
    /\ queue' = <<>>
    /\ UNCHANGED <<table, sel, btn, inflight, clicks, runVars, parseVars>>

\* step 1: winget install usbipd
on_install_winget_call ==
    /\ Pumped("install_pump1")
    /\ stack' = Goto("winget_wait", Issued(Act, "install", <<>>))
    /\ inflight' = Append(inflight, Invocation(Len(stack), "install"))
    /\ UNCHANGED <<queue, table, sel, btn, lastAct, clicks, runVars, parseVars>>

\* winget ends, or is not found, or times out, or fails to start
on_install_winget_return ==
    /\ At("winget_wait")
    /\ \E proc \in WingetProcs :
          stack' = Goto("install_pump2",
                        [Act EXCEPT !.winget =
                            << [kind |-> proc.kind,
                                winget_ok |-> proc.kind = "exit" /\ proc.code = 0] >>])
    /\ inflight' = <<>>
    /\ UNCHANGED <<queue, table, sel, btn, lastAct, clicks, runVars, parseVars>>

\* step 2: _verify_usbipd_installed() again
on_install_verify_call ==
    /\ Pumped("install_pump2")
    /\ stack' = Goto("verify1_wait", Issued(Act, "verify", <<>>))
    /\ inflight' = Append(inflight, Invocation(Len(stack), "verify"))
    /\ UNCHANGED <<queue, table, sel, btn, lastAct, clicks, runVars, parseVars>>

\* the verification of step 2 returns: success, or step 3
on_install_verify_return ==
    /\ At("verify1_wait")
    /\ \E proc \in VerifyProcs :
          LET v == _verify_usbipd_installed(proc)
              a == [Act EXCEPT !.verify = Append(@, v)]
          IN  IF InstallVerified(Act.winget[1].winget_ok, v)
              THEN stack' = Goto("install_ok_info", Reported(a, "install_verified"))
              ELSE stack' = Goto("manual_dialog", Reported(a, "manual_install"))
    /\ inflight' = <<>>
    /\ UNCHANGED <<queue, table, sel, btn, lastAct, clicks, runVars, parseVars>>

\* the user closes the "installed" box: refresh_devices
on_install_ok_close ==
    /\ At("install_ok_info")
    /\ stack' = Goto("refresh_pump", Act)
    /\ queue' = <<>>
    /\ UNCHANGED <<table, sel, btn, lastAct, inflight, clicks, runVars, parseVars>>

\* step 3, _prompt_manual_install: the user closes the box, the web page opens
_prompt_manual_install ==
    /\ At("manual_dialog")
    /\ lastAct' = Ended([Act EXCEPT !.web = TRUE])
    /\ stack' = Popped
    /\ queue' = <<>>
    /\ UNCHANGED <<table, sel, btn, inflight, clicks, runVars, parseVars>>

-----------------------------------------------------------------------------
(* The main window: the specification *)

Next ==
    \/ Click \/ SelectRow \/ IgnoreClick
    \/ refresh_devices \/ refresh_list_call \/ refresh_list_return
    \/ on_bind \/ on_bind_reply \/ on_bind_call \/ on_bind_return
    \/ on_bind_warn_close \/ on_bind_attach_call \/ on_bind_attach_return
    \/ on_bind_attach_warn_close
    \/ on_detach \/ on_detach_reply \/ on_detach_call \/ on_detach_return
    \/ on_detach_warn_close
    \/ on_install_env \/ on_install_checked \/ on_install_info_close
    \/ on_install_reply \/ on_install_winget_call \/ on_install_winget_return
    \/ on_install_verify_call \/ on_install_verify_return \/ on_install_ok_close
    \/ _prompt_manual_install

Spec == Init /\ [][Next]_vars

-----------------------------------------------------------------------------
(* The claims *)

\* P holds of the record of every action in flight and of the action that
\* ended last
AllActs(P(_)) ==
    /\ \A i \in 1..Len(stack) : P(stack[i].act)
    /\ \A i \in 1..Len(lastAct) : P(lastAct[i])

\* the number of invocations of op among calls
Count(calls, op) == Cardinality({i \in 1..Len(calls) : calls[i].op = op})

\* the text holds "already bound" in some letter case
HasAlreadyBound(msg) == Contains(upper(msg), upper(AlreadyBound))

\* the bind of the action a has returned a failure that is not "already bound"
BindFailedHard(a) ==
    a.bindRes # <<>> /\ ~a.bindRes[1].ok /\ ~HasAlreadyBound(a.bindRes[1].msg)

\* the bind of the action a has returned a failure that is "already bound"
BindFailedTolerated(a) ==
    a.bindRes # <<>> /\ ~a.bindRes[1].ok /\ HasAlreadyBound(a.bindRes[1].msg)

\* what C1_BindFailureStopsSequence asks of one action record
BindFailureStopsSequence(a) ==
    a.h = "bind" =>
        /\ (Count(a.calls, "attach") > 0 => a.bindRes # <<>>)
        /\ (BindFailedHard(a) => Count(a.calls, "attach") = 0)

\* C1: in a bind-and-attach sequence the attach is invoked only after the bind
\* has returned, and never when the bind failed with a text that does not
\* contain "already bound" in any letter case.
C1_BindFailureStopsSequence == AllActs(BindFailureStopsSequence)

\* a sequence ended after a bind that failed with "already  bound" (two spaces)
C1_Witness ==
    /\ lastAct # <<>>
    /\ lastAct[1].h = "bind"
    /\ BindFailedHard(lastAct[1])
    /\ lastAct[1].bindRes[1].msg = TxtAlreadyWide
    /\ Count(lastAct[1].calls, "bind") = 1

\* what C2_ToleratedBindAttachesOnce asks of one action record
ToleratedBindAttachesOnce(a) ==
    (a.h = "bind" /\ BindFailedTolerated(a)) =>
        /\ Count(a.calls, "attach") <= 1
        /\ \A k \in 1..Len(a.reports) : a.reports[k] # "bind_failed"
        /\ a.done =>
              /\ Count(a.calls, "attach") = 1
              /\ \A k \in 1..Len(a.calls) :
                    a.calls[k].op \in {"bind", "attach"} => a.calls[k].busid = a.dev

\* C2: when the bind fails with a text that contains "already bound" in any
\* letter case, the sequence does not report a bind failure and, by its end,
\* has invoked the attach exactly once, for the busid it bound.
C2_ToleratedBindAttachesOnce == AllActs(ToleratedBindAttachesOnce)

\* a sequence ended whose bind failed with "Device is ALREADY Bound."
C2_Witness ==
    /\ lastAct # <<>>
    /\ lastAct[1].h = "bind"
    /\ BindFailedTolerated(lastAct[1])
    /\ lastAct[1].bindRes[1].msg = TxtDeviceIs \o TxtBoundUpper
    /\ Count(lastAct[1].calls, "attach") = 1
    /\ lastAct[1].dev = Bus3

\* what C3_RefreshAfterEverySequence asks of one action record
RefreshAfterEverySequence(a) ==
    (a.h = "bind" /\ a.reply = "Yes" /\ a.done) => Count(a.calls, "list") >= 1

\* C3: every confirmed bind-and-attach sequence has queried the device list by
\* the time its handler returns, whatever its outcome.
C3_RefreshAfterEverySequence == AllActs(RefreshAfterEverySequence)

\* what C4_OneOutcomeNoRollback asks of one action record
OneOutcomeNoRollback(a) ==
    a.h = "bind" =>
        /\ Len(a.reports) <= 1
        /\ (a.done /\ a.reply = "Yes") => Len(a.reports) = 1
        /\ (\E k \in 1..Len(a.reports) : a.reports[k] = "bind_failed")
              <=> (BindFailedHard(a) /\ Count(a.calls, "attach") = 0)
        /\ (\E k \in 1..Len(a.reports) : a.reports[k] = "bound_and_attached")
              <=> a.attach = "ok"
        /\ (\E k \in 1..Len(a.reports) : a.reports[k] = "bound_not_attached")
              <=> a.attach = "failed"
        /\ \A k \in 1..Len(a.calls) : a.calls[k].op \in {"bind", "attach", "list"}

\* C4: a confirmed bind-and-attach sequence reports one outcome: a bind failure
\* exactly when the bind failed untolerated (and then no attach ran), a combined
\* success exactly when the attach succeeded, a partial success exactly when
\* the attach failed; and the sequence issues no detach.
C4_OneOutcomeNoRollback == AllActs(OneOutcomeNoRollback)

\* a sequence ended whose bind succeeded and whose attach failed
C4_Witness ==
    /\ lastAct # <<>>
    /\ lastAct[1].h = "bind"
    /\ lastAct[1].bindRes # <<>> /\ lastAct[1].bindRes[1].ok
    /\ lastAct[1].attach = "failed"
    /\ lastAct[1].reports = <<"bound_not_attached">>
    /\ Count(lastAct[1].calls, "list") = 1

\* what C5_InstallIdempotent asks of one action record
InstallIdempotent(a) ==
    (a.h = "install" /\ a.verify # <<>> /\ a.verify[1]) =>
        /\ Count(a.calls, "install") = 0
        /\ Len(a.calls) = 1
        /\ a.reply = "none"
        /\ a.reports = <<"already_installed">>
        /\ ~a.web

\* C5: an install action whose first verification succeeds invokes no
\* installation, asks nothing, reports "already installed" and issues no other
\* invocation.
C5_InstallIdempotent == AllActs(InstallIdempotent)

\* an install action ended with "already installed" and the next one is at the
\* same report
C5_Witness ==
    /\ lastAct # <<>>
    /\ lastAct[1].h = "install"
    /\ lastAct[1].reports = <<"already_installed">>
    /\ At("installed_info")
    /\ Act.verify = <<TRUE>>

\* what C6_VerificationDecides asks of one action record
VerificationDecides(a) ==
    (a.h = "install" /\ a.winget # <<>>) =>
        /\ Len(a.verify) = Count(a.calls, "verify") \/ Len(a.verify) + 1 = Count(a.calls, "verify")
        /\ Len(a.verify) = 2 =>
              /\ a.reports = IF a.verify[2] THEN <<"install_verified">>
                                            ELSE <<"manual_install">>
              /\ ~a.verify[2] => a.calls[Len(a.calls)].op = "verify"
        /\ a.web => (Len(a.verify) = 2 /\ ~a.verify[2])
        /\ a.done =>
              /\ Len(a.verify) = 2
              /\ Count(a.calls, "verify") = 2
              /\ a.web <=> ~a.verify[2]

\* C6: once winget has been run, the verification runs again whatever winget
\* did, and the outcome follows the verification alone: success exactly when
\* it succeeds, and otherwise the manual-installation box and web page, after
\* which the action issues nothing more.
C6_VerificationDecides == AllActs(VerificationDecides)

\* winget ended with exit code zero, the verification failed, and the action
\* ended with the manual installation
C6_Witness ==
    /\ lastAct # <<>>
    /\ lastAct[1].h = "install"
    /\ lastAct[1].winget # <<>>
    /\ lastAct[1].winget[1].winget_ok
    /\ lastAct[1].verify = <<FALSE, FALSE>>
    /\ lastAct[1].web

\* the pieces of a text
Pieces(msg) == {msg[k] : k \in 1..Len(msg)}

\* what a returned call of _run gave, against what subprocess.run did
RunResultShape ==
    r_pc = "returned" =>
        LET proc == r_result[1].proc
            res == r_result[1].res
        IN  /\ ~res.raised
            /\ res.ok <=> (proc.kind = "exit" /\ proc.code = 0)
            /\ proc.kind = "exit" => (res.stdout = proc.out /\ res.stderr = proc.err)
            /\ proc.kind # "exit" => (~res.ok /\ res.stdout = <<>>)
            /\ proc.kind = "notfound" =>
                  (InstallUrl \in Pieces(res.stderr) /\ res.stderr # TimeoutMsg)
            /\ proc.kind = "timeout" =>
                  (res.stderr # <<>> /\ res.stderr # NotFoundMsg
                      /\ InstallUrl \notin Pieces(res.stderr))
            /\ proc.kind = "error" => res.stderr = proc.err

C8_ActionsSerialized ==
    /\ Len(stack) <= 1
    /\ Len(inflight) <= 1
    /\ \A i \in 1..Len(stack) : \A j \in 1..Len(stack) :
          (i < j /\ stack[i].pc = "bind_pump2") => stack[j].act.calls = <<>>

MutatingOps == {"bind", "attach", "detach", "install"}

\* what C9_ConfirmedBeforeMutation asks of one action record
ConfirmedBeforeMutation(a) ==
    /\ (\E k \in 1..Len(a.calls) : a.calls[k].op \in MutatingOps) => a.reply = "Yes"
    /\ a.reply = "No" =>
          (a.done /\ \A k \in 1..Len(a.calls) : a.calls[k].op \notin MutatingOps)
    /\ (a.h \in {"bind", "detach"} /\ a.dev = <<>>) => a.calls = <<>>

\* C9: an action issues a bind, attach, detach or winget installation only
\* after the user answered Yes to its question; an action the user declined,
\* or one started with no row selected, issues none.
C9_ConfirmedBeforeMutation == AllActs(ConfirmedBeforeMutation)

\* the user declined one bind and confirmed the next, whose bind is running
C9_Witness ==
    /\ lastAct # <<>>
    /\ lastAct[1].h = "bind"
    /\ lastAct[1].reply = "No"
    /\ lastAct[1].calls = <<>>
    /\ At("bind_wait")
    /\ Act.reply = "Yes"

\* the listing is lines without BUSID, a header line, and data rows (with rules
\* and blank lines between them)
WellFormedListing(ls) ==
    \E h \in 1..Len(ls) :
        /\ ls[h].kind = "header"
        /\ \A i \in 1..(h - 1) : ls[i].kind \in {"pre", "deco"}
        /\ \A i \in (h + 1)..Len(ls) : ls[i].kind \in {"row", "deco"}

IsRow(ln) == ln.kind = "row"
RowsOf(ls) == SelectSeq(ls, IsRow)

\* C10: for the text of a successful list command that has a header line
\* followed by N well-formed data rows, list_devices returns success and N
\* records, in the order of the rows, each with the busid and the vid:pid of
\* its row, of the form <int>-<int>(.<int>)* and <4-hex>:<4-hex>.
C10_RowsParsedInOrder ==
    (/\ parsed # <<>>
     /\ parsed[1].proc.kind = "exit" /\ parsed[1].proc.code = 0
     /\ WellFormedListing(lines)) =>
        LET rows == RowsOf(lines)
            res == parsed[1].res
        IN  /\ res.ok
            /\ Len(res.devices) = Len(rows)
            /\ \A k \in 1..Len(rows) :
                  /\ res.devices[k].busid = rows[k].busid
                  /\ res.devices[k].vidpid = rows[k].vidpid
                  /\ IsBusId(res.devices[k].busid)
                  /\ IsVidPid(res.devices[k].vidpid)

\* a header and two different rows were parsed into two records
C10_Witness ==
    /\ parsed # <<>>
    /\ parsed[1].res.ok
    /\ WellFormedListing(lines)
    /\ Len(RowsOf(lines)) = 2
    /\ RowsOf(lines)[1] = RowMulti
    /\ RowsOf(lines)[2] = RowCam
    /\ Len(parsed[1].res.devices) = 2
    /\ parsed[1].res.devices[2].busid = Bus3

\* the record has a busid and a vid:pid of the right form, a name and a state
ValidRecord(d) ==
    /\ d.busid # <<>> /\ IsBusId(d.busid)
    /\ d.vidpid # <<>> /\ IsVidPid(d.vidpid)
    /\ d.name # <<>>
    /\ d.state # <<>>

\* C11: every record list_devices returns, from the strict pattern or from the
\* split on wide gaps, has a busid of the form <int>-<int>(.<int>)*, a vid:pid of
\* four hex digits, a colon and four hex digits, a name and a state, none of
\* them empty.
C11_EmittedRecordsValid ==
    parsed # <<>> =>
        \A k \in 1..Len(parsed[1].res.devices) : ValidRecord(parsed[1].res.devices[k])

\* no line of the listing holds "busid" in any letter case
NoHeaderLine(ls) ==
    \A i \in 1..Len(ls) :
        /\ ls[i].kind # "header"
        /\ ~Contains(lower(ls[i].text), <<"b","u","s","i","d">>)

\* C12: when the list command ends with exit code zero and no line of its
\* output holds "BUSID" in any letter case, list_devices returns success and no
\* device, whatever the lines are.
C12_NoHeaderGivesEmptySuccess ==
    (/\ parsed # <<>>
     /\ parsed[1].proc.kind = "exit" /\ parsed[1].proc.code = 0
     /\ NoHeaderLine(lines)) =>
        /\ parsed[1].res.ok
        /\ parsed[1].res.devices = <<>>
        /\ parsed[1].res.err = <<>>

\* a listing of data rows without a header line was parsed
C12_Witness ==
    /\ parsed # <<>>
    /\ parsed[1].proc.kind = "exit" /\ parsed[1].proc.code = 0
    /\ NoHeaderLine(lines)
    /\ Len(lines) = 3
    /\ lines[1] = Line("pre", TxtConnected)
    /\ lines[2] = RowLogitech
    /\ lines[3] = RowCam
    /\ parsed[1].res.ok
    /\ parsed[1].res.devices = <<>>

\* the places of the row with wide gaps in its name among the rows of a
\* well-formed listing that was parsed
MultiRows ==
    IF parsed # <<>> /\ parsed[1].res.ok /\ WellFormedListing(lines)
    THEN {k \in 1..Len(RowsOf(lines)) : RowsOf(lines)[k] = RowMulti}
    ELSE {}

\* the four fields of the record are not empty
Populated(d) == d.busid # <<>> /\ d.vidpid # <<>> /\ d.name # <<>> /\ d.state # <<>>

=============================================================================
